---- MODULE Spec2Model ----
(***************************************************************************)
(* Countdown Numbers Game of discord-multi-ai-bot: the lobby / game /      *)
(* submission state machine of src/src/games/countdown.py over the Redis   *)
(* keys it uses, the expression evaluator of                               *)
(* src/src/games/expression_parser.py, and the handlers of src/src/bot.py  *)
(* that drive them.                                                        *)
(*                                                                         *)
(* One (server, channel) pair is modelled: every key of countdown.py is    *)
(* built from the pair (lines 154-168), so operations on different pairs   *)
(* touch disjoint keys.  Time is the integer clock `now` in seconds; a key *)
(* with a time-to-live is removed by Tick as soon as now reaches its       *)
(* expiry time.  An optional value is a sequence of length 0 or 1.         *)
(***************************************************************************)
EXTENDS Integers, Sequences, FiniteSets, TLC

VARIABLES
    now,      \* time.time(), in seconds
    lobby,    \* key countdown:lobby:<server>:<channel>       (value, expiry)
    game,     \* key countdown:game:<server>:<channel>        (value, expiry)
    subs,     \* key countdown:submissions:<server>:<channel> (hash, expiry)
    view,     \* the CountdownSettingsViews on lobby messages, the newest first
    calls,    \* submit_answer and add_to_context calls in flight
    board,    \* key countdown:leaderboard:<server>: the sorted set, member -> score
    timer,    \* the task made by the latest start_button: none, scheduled or crashed
    context,  \* key context:<server>:<channel>                  (value, expiry)
    sent,     \* how many messages have been handed to add_to_context
    ret       \* the last operation: its name, arguments and result

vars == <<now, lobby, game, subs, view, calls, board, timer, context, sent, ret>>

None == <<>>
Some(x) == <<x>>

Range(s) == {s[i] : i \in DOMAIN s}

\* ------------------------------------------------------------------ bounds
\* The clock advances in steps of TickStep seconds up to MaxTime.
TickStep == 60
MaxTime == 120
\* Round counts offered to the operations are at most MaxRounds.
MaxRounds == 3

\* submit_answer calls that may be in flight together.
NumCalls == 2

\* Lists of submissions handed to determine_winners and update_scores have at
\* most MaxSubs entries.
MaxSubs == 3

\* Expressions built freely from tokens have at most MaxTokens tokens.
MaxTokens == 3

\* At most MaxMessages messages are handed to add_to_context.
MaxMessages == 4

\* The solver is run on lists of at most MaxNumbers numbers and on targets
\* up to MaxTarget.
MaxNumbers == 3
MaxTarget == 12

\* At most MaxViews lobby messages carry a settings view at a time.
MaxViews == 2

\* update_scores is called while no leaderboard score passes MaxScore.
MaxScore == 10

\* Identifiers of the users that act.
Users == {"u1", "u2"}

\* ------------------------------------------------------- program constants
LOBBY_TTL == 300
VIEW_TIMEOUT == 300
SUBMISSION_TTL == 120
MAX_CONTEXT_MESSAGES == 30
CONTEXT_EXPIRY == 7200
GAME_TTL_BUFFER == 120
INVALID_DISTANCE == 999999
DEFAULT_ROUNDS == 3
DEFAULT_SECONDS == 60
NUM_LARGE == 2
NUM_SMALL == 3
TARGET_MIN == 100
TARGET_MAX == 999
LARGE_NUMBERS == <<25, 50, 75, 100>>
SMALL_NUMBERS == 1..10

\* RoundsSelect offers 1..5 rounds, TimeSelect 30, 60 or 120 seconds.
RoundsOptions == 1..5
TimeOptions == {30, 60, 120}

\* web_handle_create_game passes int(rounds), int(duration) unvalidated; the
\* values tried are these, a negative and a zero round count among them.
WebRounds == -1..MaxRounds
WebDurations == {60, 180}
Starters == {"u1"}

\* ------------------------------------------------------ number generation
\* random.choices(LARGE_NUMBERS, k=2): positions drawn with replacement.
LargeChoices == {[i \in 1..NUM_LARGE |-> LARGE_NUMBERS[p[i]]] : p \in [1..NUM_LARGE -> DOMAIN LARGE_NUMBERS]}

\* random.sample(LARGE_NUMBERS, 2): the values at two distinct positions.
LargeDraws ==
    {[i \in 1..NUM_LARGE |-> LARGE_NUMBERS[p[i]]] :
        p \in {q \in [1..NUM_LARGE -> DOMAIN LARGE_NUMBERS] :
                  \A i, j \in 1..NUM_LARGE : i # j => q[i] # q[j]}}

\* random.choices(SMALL_NUMBERS, k=3): repeats allowed.
SmallDraws == [1..NUM_SMALL -> SMALL_NUMBERS]

\* The draws of the random source that the model explores.
SampleLarge == {<<50, 25>>}
SampleSmall == {<<2, 1, 2>>}
SampleTargets == {100, 999}

generate_numbers ==
    {[numbers |-> l \o s, large |-> l, small |-> s] :
        l \in {x \in SampleLarge : x \in LargeDraws},
        s \in {x \in SampleSmall : x \in SmallDraws}}

generate_target == {t \in SampleTargets : t \in TARGET_MIN..TARGET_MAX}

\* The random source at large: every draw of the large numbers, the small
\* numbers at the ends of their range, the targets at the ends of theirs.
WideSmall == {s \in SmallDraws : \A i \in 1..NUM_SMALL : s[i] \in {1, 10}}
wide_numbers ==
    {[numbers |-> l \o s, large |-> l, small |-> s] : l \in LargeDraws, s \in WideSmall}
wide_target == {t \in {99, 100, 999, 1000} : t \in TARGET_MIN..TARGET_MAX}

\* ------------------------------------------------------------- the store
\* redis SET followed by EXPIRE key ttl: the key lives until now + ttl; a
\* ttl that is not positive deletes the key.
StoreWithTtl(v, ttl, t) == IF ttl <= 0 THEN None ELSE Some([val |-> v, exp |-> t + ttl])

NoSubs == [h |-> <<>>, exp |-> 0]

save_lobby(l, t) == StoreWithTtl(l, LOBBY_TTL, t)

get_lobby == IF lobby # None THEN Some(lobby[1].val) ELSE None

save_game(g, t) ==
    StoreWithTtl(g, (g.round_duration * g.total_rounds) + GAME_TTL_BUFFER, t)

\* get_active_game on a stored game key gk.
active_game(gk) ==
    IF gk # None /\ gk[1].val.status = "active" THEN Some(gk[1].val) ELSE None

get_active_game == active_game(game)

\* hset(key, user, submission); expire(key, 120)
save_submission(s, user_id, submission, t) ==
    [h |-> [u \in DOMAIN s.h \cup {user_id} |->
                IF u = user_id THEN submission ELSE s.h[u]],
     exp |-> t + SUBMISSION_TTL]

get_submission(s, user_id) ==
    IF user_id \in DOMAIN s.h THEN Some(s.h[user_id]) ELSE None

get_all_submissions(s) == s.h

\* A delete that leaves the hash in place.
delete_submissions_keep(s) == s

delete_submissions(s) == NoSubs

delete_game(gk) == None

\* ------------------------------------------------------------- GameState
\* A deadline that still admits the instant end_time.
is_expired_late(g, t) == t > g.end_time

is_expired(g, t) == t >= g.end_time

\* A final-round test that is one round late.
is_final_round_late(g) == g.current_round > g.total_rounds

is_final_round(g) == g.current_round >= g.total_rounds

GameState(draw, target, started_by, total_rounds, round_duration, t) ==
    [target |-> target,
     numbers |-> draw.numbers,
     large_numbers |-> draw.large,
     small_numbers |-> draw.small,
     start_time |-> t,
     end_time |-> t + round_duration,
     status |-> "active",
     started_by |-> started_by,
     current_round |-> 1,
     total_rounds |-> total_rounds,
     round_duration |-> round_duration,
     game_scores |-> <<>>]

GameLobby(host_id, t) ==
    [host_id |-> host_id,
     rounds |-> DEFAULT_ROUNDS,
     seconds_per_round |-> DEFAULT_SECONDS,
     ready_players |-> <<host_id>>,
     created_at |-> t]

\* list.remove(x): the first occurrence goes.
RECURSIVE ListRemove(_, _)
ListRemove(s, x) ==
    IF s = <<>> THEN <<>>
    ELSE IF Head(s) = x THEN Tail(s)
    ELSE <<Head(s)>> \o ListRemove(Tail(s), x)

\* --------------------------------------------------- expression evaluator
\* An expression is a sequence of one-character strings.
DigitChars == <<"0", "1", "2", "3", "4", "5", "6", "7", "8", "9">>
ALLOWED_CHARS == Range(DigitChars) \cup {"+", "-", "*", "/", "(", ")", " "}

IsDigit(c) == c \in Range(DigitChars)
DigitVal(c) == (CHOOSE i \in 1..10 : DigitChars[i] = c) - 1

sanitize(expression) == SelectSeq(expression, LAMBDA c : c \in ALLOWED_CHARS)

\* clean_expr.strip() is empty
IsBlank(e) == \A i \in 1..Len(e) : e[i] = " "

\* The first position after the digit run that starts at i.
RECURSIVE RunEnd(_, _)
RunEnd(e, i) == IF i <= Len(e) /\ IsDigit(e[i]) THEN RunEnd(e, i + 1) ELSE i

\* int(n) of a digit string.
RECURSIVE IntOf(_)
IntOf(lit) ==
    IF lit = <<>> THEN 0
    ELSE (IntOf(SubSeq(lit, 1, Len(lit) - 1)) * 10) + DigitVal(lit[Len(lit)])

\* re.findall(r'\d+', expression), each converted by int().
RECURSIVE ExtractFrom(_, _)
ExtractFrom(e, i) ==
    IF i > Len(e) THEN <<>>
    ELSE IF IsDigit(e[i])
         THEN <<IntOf(SubSeq(e, i, RunEnd(e, i) - 1))>> \o ExtractFrom(e, RunEnd(e, i))
         ELSE ExtractFrom(e, i + 1)

extract_numbers(expression) == ExtractFrom(expression, 1)

Count(s, x) == Cardinality({i \in DOMAIN s : s[i] = x})

EvalError(msg, num) == Some([msg |-> msg, num |-> num])

\* Counter(used).items() iterates in order of first occurrence; the first
\* offending number decides the error.
RECURSIVE CheckUsed(_, _, _)
CheckUsed(used, i, available) ==
    IF i > Len(used) THEN [ok |-> TRUE, error |-> None]
    ELSE IF Count(available, used[i]) = 0
         THEN [ok |-> FALSE, error |-> EvalError("is not available", Some(used[i]))]
    ELSE IF Count(used, used[i]) > Count(available, used[i])
         THEN [ok |-> FALSE, error |-> EvalError("used more times than available", Some(used[i]))]
    ELSE CheckUsed(used, i + 1, available)

\* A check of the numbers used that looks only at whether each is available.
validate_numbers_members(expression, available) ==
    LET used == extract_numbers(expression)
        absent == {i \in DOMAIN used : Count(available, used[i]) = 0}
    IN  IF absent = {} THEN [ok |-> TRUE, error |-> None]
        ELSE [ok |-> FALSE,
              error |-> EvalError("is not available",
                                  Some(used[CHOOSE i \in absent : \A j \in absent : i <= j]))]

validate_numbers(expression, available) ==
    CheckUsed(extract_numbers(expression), 1, available)

\* Python's tokenizer on the sanitized text: a digit run is one literal, and a
\* literal of several digits that starts with 0 and is not all zeros is a
\* syntax error; ** and // are single tokens.
LeadingZero(lit) == Len(lit) > 1 /\ lit[1] = "0" /\ \E k \in 1..Len(lit) : lit[k] # "0"

RECURSIVE Tokens(_, _)
Tokens(e, i) ==
    IF i > Len(e) THEN <<>>
    ELSE IF e[i] = " " THEN Tokens(e, i + 1)
    ELSE IF IsDigit(e[i])
         THEN LET lit == SubSeq(e, i, RunEnd(e, i) - 1)
              IN  <<[t |-> IF LeadingZero(lit) THEN "bad" ELSE "num", n |-> IntOf(lit)]>>
                  \o Tokens(e, RunEnd(e, i))
    ELSE IF e[i] \in {"*", "/"} /\ i < Len(e) /\ e[i + 1] = e[i]
         THEN <<[t |-> IF e[i] = "*" THEN "**" ELSE "//", n |-> 0]>> \o Tokens(e, i + 2)
    ELSE <<[t |-> e[i], n |-> 0]>> \o Tokens(e, i + 1)

Tok(ts, i) == IF i <= Len(ts) THEN ts[i].t ELSE "eof"

\* ast nodes
Constant(v) == [k |-> "Constant", op |-> "", v |-> v, l |-> <<>>, r |-> <<>>]
BinOp(op, l, r) == [k |-> "BinOp", op |-> op, v |-> 0, l |-> <<l>>, r |-> <<r>>]
UnaryOp(op, e) == [k |-> "UnaryOp", op |-> op, v |-> 0, l |-> <<e>>, r |-> <<>>]
OtherNode(k) == [k |-> k, op |-> "", v |-> 0, l |-> <<>>, r |-> <<>>]

Parsed(ast, i) == [ok |-> TRUE, ast |-> ast, i |-> i]
SyntaxError == [ok |-> FALSE, ast |-> <<>>, i |-> 0]

BinOpName(t) ==
    CASE t = "+" -> "Add" [] t = "-" -> "Sub" [] t = "*" -> "Mult"
      [] t = "/" -> "Div" [] t = "//" -> "FloorDiv" [] OTHER -> "Pow"

\* Python's expression grammar over the tokens that survive sanitize:
\*   sum: term (('+'|'-') term)*      term: factor (('*'|'/'|'//') factor)*
\*   factor: ('+'|'-') factor | power power: primary ['**' factor]
\*   primary: atom ('(' [['*'|'**'] sum] ')')*     atom: NUMBER | '(' [sum] ')'
\* Parse(rule, ts, i, left) parses by the named rule from token i; left is the
\* node already parsed, for the rules that continue one.
RECURSIVE Parse(_, _, _, _)
Parse(rule, ts, i, left) ==
    CASE rule = "atom" ->
           IF Tok(ts, i) = "num" THEN Parsed(Constant(ts[i].n), i + 1)
           ELSE IF Tok(ts, i) = "("
                THEN IF Tok(ts, i + 1) = ")" THEN Parsed(OtherNode("Tuple"), i + 2)
                     ELSE LET a == Parse("sum", ts, i + 1, <<>>)
                          IN  IF a.ok /\ Tok(ts, a.i) = ")" THEN Parsed(a.ast, a.i + 1)
                              ELSE SyntaxError
           ELSE SyntaxError
      [] rule = "primary_tail" ->
           IF Tok(ts, i) # "(" THEN Parsed(left, i)
           ELSE IF Tok(ts, i + 1) = ")" THEN Parse("primary_tail", ts, i + 2, OtherNode("Call"))
           ELSE LET j == IF Tok(ts, i + 1) \in {"*", "**"} THEN i + 2 ELSE i + 1
                    a == Parse("sum", ts, j, <<>>)
                IN  IF a.ok /\ Tok(ts, a.i) = ")"
                    THEN Parse("primary_tail", ts, a.i + 1, OtherNode("Call"))
                    ELSE SyntaxError
      [] rule = "power" ->
           LET a == Parse("atom", ts, i, <<>>)
               p == IF a.ok THEN Parse("primary_tail", ts, a.i, a.ast) ELSE SyntaxError
           IN  IF ~p.ok THEN SyntaxError
               ELSE IF Tok(ts, p.i) # "**" THEN p
               ELSE LET f == Parse("factor", ts, p.i + 1, <<>>)
                    IN  IF f.ok THEN Parsed(BinOp("Pow", p.ast, f.ast), f.i) ELSE SyntaxError
      [] rule = "factor" ->
           IF Tok(ts, i) \in {"+", "-"}
           THEN LET f == Parse("factor", ts, i + 1, <<>>)
                IN  IF f.ok
                    THEN Parsed(UnaryOp(IF Tok(ts, i) = "-" THEN "USub" ELSE "UAdd", f.ast), f.i)
                    ELSE SyntaxError
           ELSE Parse("power", ts, i, <<>>)
      [] rule = "term_tail" ->
           IF Tok(ts, i) \notin {"*", "/", "//"} THEN Parsed(left, i)
           ELSE LET b == Parse("factor", ts, i + 1, <<>>)
                IN  IF b.ok
                    THEN Parse("term_tail", ts, b.i, BinOp(BinOpName(Tok(ts, i)), left, b.ast))
                    ELSE SyntaxError
      [] rule = "term" ->
           LET a == Parse("factor", ts, i, <<>>)
           IN  IF a.ok THEN Parse("term_tail", ts, a.i, a.ast) ELSE SyntaxError
      [] rule = "sum_tail" ->
           IF Tok(ts, i) \notin {"+", "-"} THEN Parsed(left, i)
           ELSE LET b == Parse("term", ts, i + 1, <<>>)
                IN  IF b.ok
                    THEN Parse("sum_tail", ts, b.i, BinOp(BinOpName(Tok(ts, i)), left, b.ast))
                    ELSE SyntaxError
      [] OTHER ->
           LET a == Parse("term", ts, i, <<>>)
           IN  IF a.ok THEN Parse("sum_tail", ts, a.i, a.ast) ELSE SyntaxError

\* ast.parse(clean_expr, mode='eval'): leading blanks are an indentation
\* error, and the whole text must be one expression.
ast_parse(e) ==
    IF e # <<>> /\ e[1] = " " THEN SyntaxError
    ELSE LET ts == Tokens(e, 1)
             p == Parse("sum", ts, 1, <<>>)
         IN  IF p.ok /\ p.i = Len(ts) + 1 THEN p ELSE SyntaxError

\* Numbers are exact fractions <<numerator, denominator>> in lowest terms with
\* a positive denominator; float tells a Python float from an int.
Abs(x) == IF x < 0 THEN -x ELSE x

RECURSIVE Gcd(_, _)
Gcd(a, b) == IF b = 0 THEN a ELSE Gcd(b, a % b)

Frac(n, d) ==
    LET g == Gcd(Abs(n), Abs(d))
        s == IF d < 0 THEN -1 ELSE 1
    IN  <<(s * n) \div g, (s * d) \div g>>

Value(q, float) == [ok |-> TRUE, q |-> q, float |-> float, error |-> None]
Raise(msg) == [ok |-> FALSE, q |-> <<0, 1>>, float |-> FALSE, error |-> EvalError(msg, None)]

SAFE_OPERATORS == {"Add", "Sub", "Mult", "Div"}

Apply(op, a, b) ==
    CASE op = "Add" -> Frac((a[1] * b[2]) + (b[1] * a[2]), a[2] * b[2])
      [] op = "Sub" -> Frac((a[1] * b[2]) - (b[1] * a[2]), a[2] * b[2])
      [] op = "Mult" -> Frac(a[1] * b[1], a[2] * b[2])
      [] OTHER -> Frac(a[1] * b[2], a[2] * b[1])

RECURSIVE safe_eval(_)
safe_eval(node) ==
    IF node.k = "Constant" THEN Value(<<node.v, 1>>, FALSE)
    ELSE IF node.k = "BinOp"
         THEN IF node.op \notin SAFE_OPERATORS THEN Raise("Operator not allowed")
              ELSE LET left == safe_eval(node.l[1])
                   IN  IF ~left.ok THEN left
                       ELSE LET right == safe_eval(node.r[1])
                            IN  IF ~right.ok THEN right
                                ELSE IF node.op = "Div" /\ right.q[1] = 0
                                     THEN Raise("Division by zero")
                                ELSE Value(Apply(node.op, left.q, right.q),
                                           node.op = "Div" \/ left.float \/ right.float)
    ELSE IF node.k = "UnaryOp"
         THEN LET e == safe_eval(node.l[1])
              IN  IF ~e.ok THEN e
                  ELSE IF node.op = "USub" THEN Value(<<-e.q[1], e.q[2]>>, e.float)
                  ELSE e
    ELSE Raise("Invalid expression structure")

\* An evaluation in which a division by zero gives a value instead of an
\* error.
evaluate_total(expression) ==
    LET clean_expr == sanitize(expression)
        r == IF IsBlank(clean_expr) THEN Raise("Empty expression")
             ELSE LET tree == ast_parse(clean_expr)
                  IN  IF ~tree.ok THEN Raise("Invalid syntax") ELSE safe_eval(tree.ast)
    IN  IF r.error = EvalError("Division by zero", None) THEN Value(<<0, 1>>, TRUE) ELSE r

evaluate(expression) ==
    LET clean_expr == sanitize(expression)
    IN  IF IsBlank(clean_expr) THEN Raise("Empty expression")
        ELSE LET tree == ast_parse(clean_expr)
             IN  IF ~tree.ok THEN Raise("Invalid syntax") ELSE safe_eval(tree.ast)

\* result is None or the value as a fraction; a float that is integral is
\* turned into an int, so a result is fractional exactly when its denominator
\* is not 1.
parse_and_validate(expression, available_numbers) ==
    LET clean_expr == sanitize(expression)
        numbers_used == extract_numbers(clean_expr)
        checked == validate_numbers(clean_expr, available_numbers)
        ev == evaluate(clean_expr)
    IN  IF IsBlank(clean_expr)
        THEN [valid |-> FALSE, result |-> None,
              error |-> EvalError("Empty expression", None), numbers_used |-> <<>>]
        ELSE IF ~checked.ok
        THEN [valid |-> FALSE, result |-> None, error |-> checked.error,
              numbers_used |-> numbers_used]
        ELSE IF ~ev.ok
        THEN [valid |-> FALSE, result |-> None, error |-> ev.error,
              numbers_used |-> numbers_used]
        ELSE [valid |-> TRUE, result |-> Some(ev.q), error |-> None,
              numbers_used |-> numbers_used]

\* int(x) of a Python number: truncation toward zero.
PyInt(q) == IF q[1] >= 0 THEN q[1] \div q[2] ELSE -((-q[1]) \div q[2])

\* The expressions that users submit.
E_50x2 == <<"5", "0", "*", "2">>
E_half == <<"5", "0", " ", "*", " ", "2", " ", "+", " ", "1", "/", "2">>
E_div0 == <<"2", "/", "(", "2", "-", "2", ")">>
Expressions == {E_50x2, E_half, E_div0}

\* ----------------------------------------------------------- results
Ok(op, arg, val) == [op |-> op, ok |-> TRUE, err |-> "", arg |-> arg, val |-> val]
Err(op, arg, msg) == [op |-> op, ok |-> FALSE, err |-> msg, arg |-> arg, val |-> None]

\* ------------------------------------------------- core operations
\* Each takes the keys it reads and the time, and gives the keys it leaves.

\* CountdownGame.create_lobby
create_lobby(lk, gk, host_id, t) ==
    IF lk # None
    THEN [ok |-> FALSE, err |-> "A lobby is already open in this channel!", lobby |-> lk,
          val |-> None]
    ELSE IF active_game(gk) # None
    THEN [ok |-> FALSE, err |-> "A game is already active in this channel!", lobby |-> lk,
          val |-> None]
    ELSE [ok |-> TRUE, err |-> "", lobby |-> save_lobby(GameLobby(host_id, t), t),
          val |-> Some(GameLobby(host_id, t))]

\* CountdownGame.update_lobby
update_lobby(lk, l, t) == save_lobby(l, t)

\* CountdownGame.delete_lobby
delete_lobby(lk) == None

\* CountdownGame.toggle_ready
toggle_ready(lk, user_id, t) ==
    IF lk = None
    THEN [ok |-> FALSE, err |-> "No lobby found!", lobby |-> lk, val |-> None]
    ELSE LET l == lk[1].val
             toggled ==
                 [l EXCEPT !.ready_players =
                     IF user_id \in Range(l.ready_players)
                     THEN ListRemove(l.ready_players, user_id)
                     ELSE Append(l.ready_players, user_id)]
         IN  [ok |-> TRUE, err |-> "", lobby |-> save_lobby(toggled, t), val |-> Some(toggled)]

\* CountdownGame.create_game
create_game(gk, started_by, total_rounds, round_duration, draw, target, t) ==
    IF active_game(gk) # None
    THEN [ok |-> FALSE, err |-> "A game is already active in this channel!", game |-> gk,
          val |-> None]
    ELSE LET state == GameState(draw, target, started_by, total_rounds, round_duration, t)
         IN  [ok |-> TRUE, err |-> "", game |-> save_game(state, t), val |-> Some(state)]

\* CountdownGame.create_game_from_lobby: the lobby key is deleted first, then
\* create_game runs.
create_game_from_lobby(lk, gk, l, draw, target, t) ==
    LET made == create_game(gk, l.host_id, l.rounds, l.seconds_per_round, draw, target, t)
    IN  [ok |-> made.ok, err |-> made.err, lobby |-> delete_lobby(lk), game |-> made.game,
         val |-> made.val]

\* The Submission that submit_answer builds from the evaluator's result.
Submission(user_id, expression, g, t) ==
    LET result == parse_and_validate(expression, g.numbers)
    IN  IF result.valid
        THEN [user_id |-> user_id, expression |-> expression,
              result |-> Some(PyInt(result.result[1])),
              distance |-> Abs(g.target - PyInt(result.result[1])),
              valid |-> TRUE, error |-> None, submitted_at |-> t]
        ELSE [user_id |-> user_id, expression |-> expression, result |-> None,
              distance |-> INVALID_DISTANCE, valid |-> FALSE, error |-> result.error,
              submitted_at |-> t]

\* A merge that stores the round's points over the accumulated ones.
merge_scores_overwrite(game_scores, round_points) ==
    [u \in DOMAIN game_scores \cup DOMAIN round_points |->
        IF u \in DOMAIN round_points THEN round_points[u] ELSE game_scores[u]]

\* game_scores[user] = game_scores.get(user, 0) + points, for each item of
\* round_points.
merge_scores(game_scores, round_points) ==
    [u \in DOMAIN game_scores \cup DOMAIN round_points |->
        (IF u \in DOMAIN game_scores THEN game_scores[u] ELSE 0)
        + (IF u \in DOMAIN round_points THEN round_points[u] ELSE 0)]

\* The next round's state in advance_round.
next_round(g, round_points, draw, target, t) ==
    [g EXCEPT !.game_scores = merge_scores(g.game_scores, round_points),
              !.current_round = g.current_round + 1,
              !.target = target,
              !.numbers = draw.numbers,
              !.large_numbers = draw.large,
              !.small_numbers = draw.small,
              !.start_time = t,
              !.end_time = t + g.round_duration]

\* round_points offered to advance_round.
PointValues == {5}
RoundPoints == UNION {[S -> PointValues] : S \in (SUBSET Users) \ {{}}}

\* ------------------------------------------------------------ ranking
\* The sort key of determine_winners: (distance, submitted_at), compared as
\* Python compares tuples.
KeyLE(a, b) ==
    \/ a.distance < b.distance
    \/ a.distance = b.distance /\ a.submitted_at <= b.submitted_at

\* sorted() is stable: an entry goes after the entries whose key is not
\* greater than its own.
RECURSIVE InsertSorted(_, _)
InsertSorted(s, x) ==
    IF s = <<>> THEN <<x>>
    ELSE IF KeyLE(Head(s), x) THEN <<Head(s)>> \o InsertSorted(Tail(s), x)
    ELSE <<x>> \o s

RECURSIVE sorted(_)
sorted(s) == IF s = <<>> THEN <<>> ELSE InsertSorted(sorted(SubSeq(s, 1, Len(s) - 1)), s[Len(s)])

\* A ranking that keeps the invalid submissions.
determine_winners_all(submissions) == sorted(submissions)

\* CountdownGame.determine_winners
determine_winners(submissions) ==
    LET valid_subs == SelectSeq(submissions, LAMBDA x : x.valid)
    IN  IF valid_subs = <<>> THEN <<>> ELSE sorted(valid_subs)

\* Submissions handed to determine_winners: valid at distance 0 or 5, or
\* invalid, at three times.
SubmissionOf(user_id, valid, distance, t) ==
    [user_id |-> user_id, expression |-> <<>>,
     result |-> IF valid THEN Some(100 + distance) ELSE None,
     distance |-> IF valid THEN distance ELSE INVALID_DISTANCE,
     valid |-> valid,
     error |-> IF valid THEN None ELSE EvalError("Invalid syntax", None),
     submitted_at |-> t]

SeqsUpTo(S, n) == UNION {[1..k -> S] : k \in 0..n}

RankedInputs ==
    SeqsUpTo({SubmissionOf(u, v, d, t) :
                 u \in Users, v \in BOOLEAN, d \in {0, 5}, t \in {5, 10, 20}}, MaxSubs)

\* ------------------------------------------------------------ scoring
\* The points update_scores gives for a distance, under a table whose second
\* band stops short of 10.
points_short(distance) ==
    IF distance = 0 THEN 10
    ELSE IF distance < 10 THEN 5
    ELSE IF distance <= 25 THEN 2
    ELSE 0

\* points = 0; if sub.distance == 0 ... elif ... <= 10 ... elif ... <= 25
points(distance) ==
    IF distance = 0 THEN 10
    ELSE IF distance <= 10 THEN 5
    ELSE IF distance <= 25 THEN 2
    ELSE 0

\* ZADD: the member's score is set.
zadd(zset, amount, member) ==
    [u \in DOMAIN zset \cup {member} |-> IF u = member THEN amount ELSE zset[u]]

\* ZINCRBY: the member's score, 0 when absent, grows by amount.
zincrby(zset, amount, member) ==
    [u \in DOMAIN zset \cup {member} |->
        IF u = member
        THEN (IF member \in DOMAIN zset THEN zset[member] ELSE 0) + amount
        ELSE zset[u]]

\* The loop of update_scores over the submissions, from the leaderboard zset
\* and the points_earned it has so far.
RECURSIVE update_scores_loop(_, _, _)
update_scores_loop(submissions, zset, points_earned) ==
    IF submissions = <<>> THEN [board |-> zset, points_earned |-> points_earned]
    ELSE LET sub == Head(submissions)
         IN  IF sub.valid /\ points(sub.distance) > 0
             THEN update_scores_loop(Tail(submissions),
                                     zincrby(zset, points(sub.distance), sub.user_id),
                                     zadd(points_earned, points(sub.distance), sub.user_id))
             ELSE update_scores_loop(Tail(submissions), zset, points_earned)

\* The submissions of a round as end_round returns them: one of a user at
\* most, in the order they were stored, each invalid or valid at a distance
\* at an end of a band of the point table.
RoundSubmissions ==
    {l \in SeqsUpTo({SubmissionOf(u, v, d, 0) :
                        u \in Users, v \in BOOLEAN, d \in {0, 1, 10, 11, 25, 26}},
                    Cardinality(Users)) :
        \A i, j \in DOMAIN l : i # j => l[i].user_id # l[j].user_id}

\* ------------------------------------------------- evaluator inputs
\* The text made of a list of tokens.
RECURSIVE Flatten(_)
Flatten(tokens) == IF tokens = <<>> THEN <<>> ELSE Head(tokens) \o Flatten(Tail(tokens))

Operands == {<<"2">>, <<"5">>, <<"2", "5">>}
Operators == {<<"+">>, <<"-">>, <<"*">>, <<"/">>}
ParserTokens == Operands \cup {<<"+">>, <<"-">>, <<"/">>, <<"(">>, <<")">>, <<"x">>}

\* Expressions handed to parse_and_validate: every text of at most MaxTokens
\* tokens, and the texts of four shapes over the operands:
\*   a o (b o c)     a / -(b - c)     a o (b o (c o d))     (a o b) o (c o d)
ParserExpressions ==
    {Flatten(t) : t \in SeqsUpTo(ParserTokens, MaxTokens)}
    \cup {Flatten(<<a, o, <<"(">>, b, q, c, <<")">>>>) :
             a \in Operands, b \in Operands, c \in Operands, o \in Operators, q \in Operators}
    \cup {Flatten(<<a, <<"/", "-", "(">>, b, <<"-">>, c, <<")">>>>) :
             a \in Operands, b \in Operands, c \in Operands}
    \cup {Flatten(<<a, o, <<"(">>, b, q, <<"(">>, c, r, d, <<")", ")">>>>) :
             a \in Operands, b \in Operands, c \in Operands, d \in Operands,
             o \in Operators, q \in Operators, r \in Operators}
    \cup {Flatten(<<<<"(">>, a, o, b, <<")">>, q, <<"(">>, c, r, d, <<")">>>>) :
             a \in Operands, b \in Operands, c \in Operands, d \in Operands,
             o \in Operators, q \in Operators, r \in Operators}

\* Numbers of a round: two different large numbers, then three small ones.
ParserNumbers == {<<25, 50, 2, 2, 2>>, <<25, 50, 2, 5, 5>>, <<25, 75, 2, 2, 5>>}

\* ---------------------------------------------------------------- solver
\* str(n) of a natural number.
RECURSIVE str(_)
str(n) == IF n < 10 THEN <<DigitChars[n + 1]>>
          ELSE str(n \div 10) \o <<DigitChars[(n % 10) + 1]>>

\* The two expressions joined without the brackets.
Combined_bare(expr1, op, expr2) == expr1 \o <<" ", op, " ">> \o expr2

\* f"({expr1} {op} {expr2})"
Combined(expr1, op, expr2) == <<"(">> \o expr1 \o <<" ", op, " ">> \o expr2 \o <<")">>

\* best_expression, best_result and best_diff before the search.
InitialBest(target) == [expression |-> None, result |-> 0, diff |-> target]

\* The k-th attempt of the double loop over i and j, four operators per
\* pair in the order + * - /; i and j count from 1.
AttemptI(n, k) == ((k - 1) \div (4 * n)) + 1
AttemptJ(n, k) == (((k - 1) \div 4) % n) + 1
AttemptOp(k) == <<"+", "*", "-", "/">>[((k - 1) % 4) + 1]

\* Whether the attempt is made, per the conditions on lines 73, 90, 95-97, 102
\* and 108.
Attempted(current_numbers, i, j, op) ==
    LET val1 == current_numbers[i].val
        val2 == current_numbers[j].val
    IN  /\ i # j
        /\ CASE op = "+" -> i < j
             [] op = "*" -> i < j /\ val1 # 1 /\ val2 # 1
             [] op = "-" -> val1 > val2
             [] op = "/" -> val2 > 1 /\ val1 % val2 = 0

NewVal(val1, op, val2) ==
    CASE op = "+" -> val1 + val2
      [] op = "*" -> val1 * val2
      [] op = "-" -> val1 - val2
      [] op = "/" -> val1 \div val2

\* remaining + [(new_val, f"({expr1} op {expr2})")]
NextNumbers(current_numbers, i, j, op) ==
    LET n == Len(current_numbers)
        remaining == SelectSeq([k \in 1..n |-> IF k = i \/ k = j THEN None
                                               ELSE Some(current_numbers[k])],
                               LAMBDA x : x # None)
    IN  [k \in 1..Len(remaining) |-> remaining[k][1]]
        \o <<[val |-> NewVal(current_numbers[i].val, op, current_numbers[j].val),
              expr |-> Combined(current_numbers[i].expr, op, current_numbers[j].expr)]>>

\* The steps of one call of _recursive_solve: one per entry of current_numbers
\* for the loop that updates the best found, then, when more than one number
\* is left, one per attempt of the double loop.
Steps(current_numbers) ==
    LET n == Len(current_numbers)
    IN  IF n <= 1 THEN n ELSE n + (4 * n * n)

\* _recursive_solve(current_numbers): the steps lo..hi of the call, run in
\* order by halving the range, stopping at the first step that returns True.
\* The result is the best found so far and whether True was returned.
RECURSIVE recursive_solve(_, _, _, _, _)
recursive_solve(target, current_numbers, best, lo, hi) ==
    LET n == Len(current_numbers)
    IN  IF hi < lo THEN [best |-> best, found |-> FALSE]
        ELSE IF lo < hi
        THEN LET mid == (lo + hi) \div 2
                 r == recursive_solve(target, current_numbers, best, lo, mid)
             IN  IF r.found THEN r
                 ELSE recursive_solve(target, current_numbers, r.best, mid + 1, hi)
        ELSE IF lo <= n
        THEN LET val == current_numbers[lo].val
                 diff == Abs(target - val)
             IN  IF diff < best.diff
                 THEN [best |-> [expression |-> Some(current_numbers[lo].expr),
                                 result |-> val, diff |-> diff],
                       found |-> diff = 0]
                 ELSE [best |-> best, found |-> FALSE]
        ELSE LET k == lo - n
                 i == AttemptI(n, k)
                 j == AttemptJ(n, k)
                 op == AttemptOp(k)
             IN  IF Attempted(current_numbers, i, j, op)
                 THEN LET next == NextNumbers(current_numbers, i, j, op)
                      IN  recursive_solve(target, next, best, 1, Steps(next))
                 ELSE [best |-> best, found |-> FALSE]

initial_state(numbers) == [k \in DOMAIN numbers |-> [val |-> numbers[k], expr |-> str(numbers[k])]]

\* A search that looks at the first number only and combines nothing.
solve_shallow(target, numbers) ==
    LET r == recursive_solve(target, initial_state(numbers), InitialBest(target), 1, 1)
    IN  [expression |-> r.best.expression, result |-> r.best.result]

solve(target, numbers) ==
    LET r == recursive_solve(target, initial_state(numbers), InitialBest(target),
                             1, Steps(initial_state(numbers)))
    IN  [expression |-> r.best.expression, result |-> r.best.result]

\* Targets and number lists handed to solve.
SolverPool == {1, 2, 3, 10}
SolverNumbers == SeqsUpTo(SolverPool, MaxNumbers) \ {<<>>}
SolverTargets == 1..MaxTarget

\* The numbers 25, 50, 75, 3, 6 with targets around 952; a list handed to
\* solve is any selection of the numbers, in their order.
ClassicNumbers == <<25, 50, 75, 3, 6>>
ClassicTargets == 950..954
Selection(numbers, S) ==
    LET kept == SelectSeq([k \in DOMAIN numbers |-> IF k \in S THEN Some(numbers[k]) ELSE None],
                          LAMBDA x : x # None)
    IN  [k \in 1..Len(kept) |-> kept[k][1]]
ClassicLists == {Selection(ClassicNumbers, S) : S \in (SUBSET DOMAIN ClassicNumbers) \ {{}}}

\* ------------------------------------------------------------- actions
\* CountdownSettingsView.__init__: the view holds the lobby object and its own
\* copy of the settings; discord.py stops it VIEW_TIMEOUT seconds after the
\* last interaction it dispatched.
CountdownSettingsView(l, t) ==
    [lobby |-> l, rounds |-> l.rounds, seconds_per_round |-> l.seconds_per_round,
     timeout_at |-> t + VIEW_TIMEOUT]

\* The view after it has dispatched an interaction at time t.
Dispatched(v, t) == [v EXCEPT !.timeout_at = t + VIEW_TIMEOUT]

ReplaceAt(s, m, v) == [s EXCEPT ![m] = v]
RemoveAt(s, m) == SubSeq(s, 1, m - 1) \o SubSeq(s, m + 1, Len(s))

\* bot._handle_countdown: create_lobby and the settings view on its message;
\* the update_lobby after the message is sent stores the same lobby again.
\* Of the settings views on screen the newest `kept` are followed further.
handle_countdown_keeping(kept, user) ==
    LET r == create_lobby(lobby, game, user, now)
    IN  /\ lobby' = (IF r.ok THEN update_lobby(r.lobby, r.val[1], now) ELSE r.lobby)
        /\ view' = (IF r.ok
                    THEN <<CountdownSettingsView(r.val[1], now)>>
                         \o SubSeq(view, 1, IF Len(view) < kept THEN Len(view) ELSE kept - 1)
                    ELSE view)
        /\ ret' = (IF r.ok THEN Ok("create_lobby", <<user>>, r.val)
                   ELSE Err("create_lobby", <<user>>, r.err))
        /\ UNCHANGED <<now, game, subs, calls, board, timer, context, sent>>

handle_countdown(user) == handle_countdown_keeping(MaxViews, user)

\* CountdownSettingsView.ready_button, pressed on the m-th view
ready_button(m, user) ==
    /\ m \in DOMAIN view
    /\ LET r == toggle_ready(lobby, user, now)
           v == Dispatched(view[m], now)
       IN  /\ lobby' = r.lobby
           /\ view' = ReplaceAt(view, m, IF r.ok THEN [v EXCEPT !.lobby = r.val[1]] ELSE v)
           /\ ret' = (IF r.ok THEN Ok("toggle_ready", <<user>>, r.val)
                      ELSE Err("toggle_ready", <<user>>, r.err))
    /\ UNCHANGED <<now, game, subs, calls, board, timer, context, sent>>

\* RoundsSelect.callback
RoundsSelect_callback(m, rounds) ==
    /\ m \in DOMAIN view
    /\ view' = ReplaceAt(view, m, [Dispatched(view[m], now) EXCEPT !.rounds = rounds])
    /\ ret' = Ok("RoundsSelect", <<rounds>>, None)
    /\ UNCHANGED <<now, lobby, game, subs, calls, board, timer, context, sent>>

\* TimeSelect.callback
TimeSelect_callback(m, seconds) ==
    /\ m \in DOMAIN view
    /\ view' = ReplaceAt(view, m, [Dispatched(view[m], now) EXCEPT !.seconds_per_round = seconds])
    /\ ret' = Ok("TimeSelect", <<seconds>>, None)
    /\ UNCHANGED <<now, lobby, game, subs, calls, board, timer, context, sent>>

\* CountdownSettingsView.start_button up to the game's creation: the host
\* check against the view's lobby object, update_lobby with the view's
\* settings, create_game_from_lobby.  A ValueError of create_game ends the
\* handler with the view still shown.  After the message is edited (the game
\* board replaces the settings view) the handler stores the same game once
\* more with its message id (line 267), which changes no field kept here.
start_button(m, user) ==
    /\ m \in DOMAIN view
    /\ IF user # view[m].lobby.host_id
       THEN /\ ret' = Err("start_button", <<user>>, "Only the host can start the game!")
            /\ view' = ReplaceAt(view, m, Dispatched(view[m], now))
            /\ UNCHANGED <<now, lobby, game, subs, calls, board, timer, context, sent>>
       ELSE \E draw \in generate_numbers, target \in generate_target :
              LET l == [view[m].lobby EXCEPT !.rounds = view[m].rounds,
                                            !.seconds_per_round = view[m].seconds_per_round]
                  r == create_game_from_lobby(update_lobby(lobby, l, now), game, l,
                                              draw, target, now)
              IN  /\ lobby' = r.lobby
                  /\ game' = r.game
                  /\ view' = (IF r.ok THEN RemoveAt(view, m)
                              ELSE ReplaceAt(view, m, [Dispatched(view[m], now) EXCEPT !.lobby = l]))
                  /\ ret' = (IF r.ok THEN Ok("start_button", <<user, l>>, r.val)
                             ELSE Err("start_button", <<user, l>>, r.err))
                  /\ timer' = (IF r.ok THEN "scheduled" ELSE timer)
                  /\ UNCHANGED <<now, subs, calls, board, context, sent>>

\* CountdownSettingsView.cancel_button
cancel_button(m, user) ==
    /\ m \in DOMAIN view
    /\ IF user # view[m].lobby.host_id
       THEN /\ ret' = Err("cancel_button", <<user>>, "Only the host can cancel the lobby!")
            /\ view' = ReplaceAt(view, m, Dispatched(view[m], now))
            /\ UNCHANGED <<now, lobby, game, subs, calls, board, timer, context, sent>>
       ELSE /\ lobby' = delete_lobby(lobby)
            /\ view' = RemoveAt(view, m)
            /\ ret' = Ok("cancel_button", <<user>>, None)
            /\ UNCHANGED <<now, game, subs, calls, board, timer, context, sent>>

\* CountdownGame.delete_lobby, called on its own: the key is deleted and the
\* call returns None.
delete_lobby_call ==
    /\ lobby' = delete_lobby(lobby)
    /\ ret' = Ok("delete_lobby", <<>>, None)
    /\ UNCHANGED <<now, game, subs, view, calls, board, timer, context, sent>>

\* AIBot.web_handle_create_game: create_game without a lobby, the random
\* source giving one of draws and one of targets.
web_handle_create_game_drawing(draws, targets, started_by, total_rounds, round_duration) ==
    \E draw \in draws, target \in targets :
        LET r == create_game(game, started_by, total_rounds, round_duration, draw, target, now)
        IN  /\ game' = r.game
            /\ ret' = (IF r.ok
                       THEN Ok("create_game", <<started_by, total_rounds, round_duration>>, r.val)
                       ELSE Err("create_game", <<started_by, total_rounds, round_duration>>, r.err))
            /\ UNCHANGED <<now, lobby, subs, view, calls, board, timer, context, sent>>

web_handle_create_game(started_by, total_rounds, round_duration) ==
    web_handle_create_game_drawing(generate_numbers, generate_target,
                                   started_by, total_rounds, round_duration)

\* CountdownGame.submit_answer, run without interruption.
submit_answer(user_id, expression) ==
    LET g == get_active_game
    IN  /\ IF g = None
           THEN /\ ret' = Err("submit_answer", <<user_id>>, "No active game in this channel!")
                /\ subs' = subs
           ELSE IF is_expired(g[1], now)
           THEN /\ ret' = Err("submit_answer", <<user_id>>, "Time's up! The game has ended.")
                /\ subs' = subs
           ELSE IF get_submission(subs, user_id) # None
           THEN /\ ret' = Err("submit_answer", <<user_id>>, "You already submitted an answer!")
                /\ subs' = subs
           ELSE LET submission == Submission(user_id, expression, g[1], now)
                IN  /\ subs' = save_submission(subs, user_id, submission, now)
                    /\ ret' = Ok("submit_answer", <<user_id>>, Some(submission))
        /\ UNCHANGED <<now, lobby, game, view, calls, board, timer, context, sent>>

\* CountdownGame.end_round
end_round ==
    LET g == get_active_game
    IN  /\ IF g = None
           THEN /\ ret' = Err("end_round", <<>>, "No active game to end round")
                /\ subs' = subs
           ELSE /\ ret' = Ok("end_round", <<>>, Some([game |-> g[1], submissions |-> get_all_submissions(subs)]))
                /\ subs' = delete_submissions(subs)
        /\ UNCHANGED <<now, lobby, game, view, calls, board, timer, context, sent>>

\* CountdownGame.advance_round, the random source giving one of draws and one
\* of targets.
advance_round_drawing(draws, targets, round_points) ==
    LET g == get_active_game
    IN  /\ IF g = None
           THEN /\ ret' = Err("advance_round", <<round_points, g>>, "No active game")
                /\ game' = game
           ELSE IF is_final_round(g[1])
           THEN /\ ret' = Ok("advance_round", <<round_points, g>>, None)
                /\ game' = delete_game(game)
           ELSE \E draw \in draws, target \in targets :
                  LET next == next_round(g[1], round_points, draw, target, now)
                  IN  /\ game' = save_game(next, now)
                      /\ ret' = Ok("advance_round", <<round_points, g>>, Some(next))
        /\ UNCHANGED <<now, lobby, subs, view, calls, board, timer, context, sent>>

advance_round(round_points) ==
    advance_round_drawing(generate_numbers, generate_target, round_points)

\* CountdownGame.end_game
end_game ==
    LET g == get_active_game
    IN  /\ IF g = None
           THEN /\ ret' = Err("end_game", <<>>, "No active game to end")
                /\ UNCHANGED <<game, subs>>
           ELSE /\ ret' = Ok("end_game", <<>>,
                             Some([game |-> [g[1] EXCEPT !.status = "ended"],
                                   submissions |-> get_all_submissions(subs)]))
                /\ game' = delete_game(game)
                /\ subs' = delete_submissions(subs)
        /\ UNCHANGED <<now, lobby, view, calls, board, timer, context, sent>>

\* CountdownGame.cancel_game
cancel_game ==
    LET g == get_active_game
    IN  /\ IF g = None
           THEN /\ ret' = Ok("cancel_game", <<>>, Some(FALSE))
                /\ UNCHANGED <<game, subs>>
           ELSE /\ ret' = Ok("cancel_game", <<>>, Some(TRUE))
                /\ game' = delete_game(game)
                /\ subs' = delete_submissions(subs)
        /\ UNCHANGED <<now, lobby, view, calls, board, timer, context, sent>>

\* AIBot._countdown_timer_with_updates, the task that start_button creates.
\* Its first statement (line 1122) calls get_active_game with the keyword
\* auto_advance, which get_active_game (countdown.py:238) does not accept: the
\* call raises TypeError and the task ends there, before any await.  Lines
\* 1123-1145 and _handle_round_end are never reached.
countdown_timer_with_updates ==
    /\ timer = "scheduled"
    /\ timer' = "crashed"
    /\ ret' = Err("countdown_timer_with_updates", <<>>, "TypeError")
    /\ UNCHANGED <<now, lobby, game, subs, view, calls, board, context, sent>>

\* Time passes, up to the time limit; keys whose time-to-live has run out are
\* gone, and so are the views that timed out.  A task that is ready to run
\* runs before the event loop waits.
Expire(k, t) == IF k # None /\ k[1].exp <= t THEN None ELSE k

TickTo(limit) ==
    /\ now + TickStep <= limit
    /\ timer # "scheduled"
    /\ now' = now + TickStep
    /\ lobby' = Expire(lobby, now')
    /\ game' = Expire(game, now')
    /\ subs' = (IF subs.h # <<>> /\ subs.exp <= now' THEN NoSubs ELSE subs)
    /\ view' = SelectSeq(view, LAMBDA v : v.timeout_at > now')
    /\ context' = Expire(context, now')
    /\ ret' = Ok("tick", <<>>, None)
    /\ UNCHANGED <<calls, board, timer, sent>>

Tick == TickTo(MaxTime)

\* Time passing for as long as a lobby can last.
LobbyTick == TickTo(LOBBY_TTL + TickStep)


\* ------------------------------------ submit_answer, store access by access
\* The calls of submit_answer that reach the store: GET of the game key,
\* HGET of the user's field, then HSET and EXPIRE.  A call in flight keeps the
\* game it read.
Idle == [pc |-> "idle", user_id |-> "", expression |-> <<>>, g |-> None, result |-> ""]

Done(call, result) == [call EXCEPT !.pc = "done", !.result = result]

\* lines 359-364: get_active_game and the deadline
submit_read_game(c, user_id, expression) ==
    /\ calls[c].pc = "idle"
    /\ LET g == get_active_game
           call == [Idle EXCEPT !.user_id = user_id, !.expression = expression]
       IN  calls' = [calls EXCEPT ![c] =
                        IF g = None THEN Done(call, "no game")
                        ELSE IF is_expired(g[1], now) THEN Done(call, "time is up")
                        ELSE [call EXCEPT !.pc = "check", !.g = g]]
    /\ ret' = Ok("submit_read_game", <<c>>, None)
    /\ UNCHANGED <<now, lobby, game, subs, view, board, timer, context, sent>>

\* lines 366-369: _get_submission
submit_read_submission(c) ==
    /\ calls[c].pc = "check"
    /\ calls' = [calls EXCEPT ![c] =
                    IF get_submission(subs, calls[c].user_id) # None
                    THEN Done(calls[c], "already submitted")
                    ELSE [calls[c] EXCEPT !.pc = "write"]]
    /\ ret' = Ok("submit_read_submission", <<c>>, None)
    /\ UNCHANGED <<now, lobby, game, subs, view, board, timer, context, sent>>

\* lines 371-399: the evaluation and _save_submission
submit_write(c) ==
    /\ calls[c].pc = "write"
    /\ subs' = save_submission(subs, calls[c].user_id,
                               Submission(calls[c].user_id, calls[c].expression,
                                          calls[c].g[1], now), now)
    /\ calls' = [calls EXCEPT ![c] = Done(calls[c], "recorded")]
    /\ ret' = Ok("submit_write", <<c>>, None)
    /\ UNCHANGED <<now, lobby, game, view, board, timer, context, sent>>

\* CountdownGame.update_scores
update_scores(submissions) ==
    LET done == update_scores_loop(submissions, board, <<>>)
    IN  /\ \A u \in DOMAIN done.board : done.board[u] <= MaxScore
        /\ board' = done.board
        /\ ret' = Ok("update_scores", <<submissions>>, Some(done.points_earned))
        /\ UNCHANGED <<now, lobby, game, subs, view, calls, timer, context, sent>>

\* RedisClient.get_context on the stored key.
get_context == IF context # None THEN context[1].val ELSE <<>>

\* context[-max_context_messages:]
LastOf(s, n) == IF Len(s) > n THEN SubSeq(s, Len(s) - n + 1, Len(s)) ELSE s

\* RedisClient.add_to_context up to its read of the store (line 19): the
\* call c holds the context it has read.  The message is the next one handed
\* in.
add_to_context_read(c, user_id) ==
    /\ calls[c] = Idle
    /\ sent < MaxMessages
    /\ sent' = sent + 1
    /\ calls' = [calls EXCEPT ![c] = [pc |-> "add_to_context", user_id |-> user_id,
                                      message |-> sent', context |-> get_context]]
    /\ ret' = Ok("get_context", <<c>>, Some(get_context))
    /\ UNCHANGED <<now, lobby, game, subs, view, board, timer, context>>

\* RedisClient.add_to_context from the append to the end (lines 21-32): the
\* entry is appended to the context read, the last 30 are kept, and the key is
\* set with its expiry.
add_to_context_write(c) ==
    /\ calls[c].pc = "add_to_context"
    /\ LET entry == [user_id |-> calls[c].user_id, message |-> calls[c].message]
       IN  /\ context' = StoreWithTtl(LastOf(Append(calls[c].context, entry),
                                             MAX_CONTEXT_MESSAGES),
                                      CONTEXT_EXPIRY, now)
           /\ ret' = Ok("add_to_context", <<c, entry>>, None)
    /\ calls' = [calls EXCEPT ![c] = Idle]
    /\ UNCHANGED <<now, lobby, game, subs, view, board, timer, sent>>

\* A call of parse_and_validate on the expression and numbers held in ret.
parse_and_validate_call ==
    /\ ret.op = "parser_input"
    /\ ret' = Ok("parse_and_validate", ret.arg,
                 Some(parse_and_validate(ret.arg[1], ret.arg[2])))
    /\ UNCHANGED <<now, lobby, game, subs, view, calls, board, timer, context, sent>>

\* A call of solve on the target and numbers held in ret.
solve_call ==
    /\ ret.op = "solver_input"
    /\ ret' = Ok("solve", ret.arg, Some(solve(ret.arg[1], ret.arg[2])))
    /\ UNCHANGED <<now, lobby, game, subs, view, calls, board, timer, context, sent>>

\* A call of determine_winners on the list held in ret.
determine_winners_call ==
    /\ ret.op = "input"
    /\ ret' = Ok("determine_winners", ret.arg, Some(determine_winners(ret.arg[1])))
    /\ UNCHANGED <<now, lobby, game, subs, view, calls, board, timer, context, sent>>

Init ==
    /\ now = 0
    /\ lobby = None
    /\ game = None
    /\ subs = NoSubs
    /\ view = <<>>
    /\ calls = [c \in 1..NumCalls |-> Idle]
    /\ board = <<>>
    /\ timer = "none"
    /\ context = None
    /\ sent = 0
    /\ ret = Ok("init", <<>>, None)

\* The round: a game made directly, the answers submitted to it and its end.
Next ==
    \/ \E u \in Starters, d \in WebDurations : web_handle_create_game(u, 1, d)
    \/ \E u \in Users, e \in Expressions : submit_answer(u, e)
    \/ end_round
    \/ advance_round(<<>>)
    \/ end_game
    \/ cancel_game
    \/ Tick

Spec == Init /\ [][Next]_vars

\* The game: its creation with any round count, and its rounds.
NextGame ==
    \/ \E u \in Starters, r \in WebRounds, d \in WebDurations : web_handle_create_game(u, r, d)
    \/ \E u \in Users : submit_answer(u, E_50x2)
    \/ \E p \in RoundPoints : advance_round(p)
    \/ end_game
    \/ cancel_game
    \/ Tick

SpecGame == Init /\ [][NextGame]_vars

\* The lobby and the games made from it or beside it, with the settings view
\* of the newest lobby message.
NextLobby ==
    \/ \E u \in Users : handle_countdown_keeping(1, u)
    \/ \E u \in Users : ready_button(1, u)
    \/ RoundsSelect_callback(1, 1)
    \/ TimeSelect_callback(1, 30)
    \/ \E u \in Users : start_button(1, u)
    \/ countdown_timer_with_updates
    \/ \E u \in Users : cancel_button(1, u)
    \/ \E u \in Starters : web_handle_create_game(u, 1, DEFAULT_SECONDS)
    \/ advance_round(<<>>)
    \/ end_game
    \/ cancel_game
    \/ Tick

SpecLobby == Init /\ [][NextLobby]_vars

\* Calls of submit_answer whose store accesses interleave, in one round.
NextRace ==
    \/ \E u \in Starters, d \in WebDurations : web_handle_create_game(u, 1, d)
    \/ \E c \in 1..NumCalls, u \in Users, e \in Expressions : submit_read_game(c, u, e)
    \/ \E c \in 1..NumCalls : submit_read_submission(c)
    \/ \E c \in 1..NumCalls : submit_write(c)

SpecRace == Init /\ [][NextRace]_vars

\* The numbers and targets of the rounds, over the random source at large.
NextDraw ==
    \/ \E u \in Starters : web_handle_create_game_drawing(wide_numbers, wide_target, u, 2, 60)
    \/ advance_round_drawing(wide_numbers, wide_target, <<>>)

SpecDraw == Init /\ [][NextDraw]_vars

\* The leaderboard beside the games: update_scores on the submissions of a
\* round, and the operations that make, end and remove games.
NextScore ==
    \/ \E u \in Starters : web_handle_create_game(u, 2, DEFAULT_SECONDS)
    \/ end_round
    \/ advance_round(<<>>)
    \/ end_game
    \/ cancel_game
    \/ \E l \in RoundSubmissions : update_scores(l)

SpecScore == Init /\ [][NextScore]_vars

\* Cleanup: lobbies and games made, answered, and removed by delete_lobby and
\* cancel_game.
NextCancel ==
    \/ \E u \in Users : handle_countdown(u)
    \/ delete_lobby_call
    \/ \E u \in Starters : web_handle_create_game(u, 1, DEFAULT_SECONDS)
    \/ \E u \in Users : submit_answer(u, E_50x2)
    \/ advance_round(<<>>)
    \/ cancel_game
    \/ Tick

SpecCancel == Init /\ [][NextCancel]_vars

\* The settings views of up to MaxViews lobby messages, for as long as a lobby
\* can last.
NextViews ==
    \/ \E u \in Users : handle_countdown(u)
    \/ \E m \in 1..MaxViews, u \in Users : ready_button(m, u)
    \/ \E m \in 1..MaxViews : RoundsSelect_callback(m, 1)
    \/ \E m \in 1..MaxViews, u \in Users : start_button(m, u)
    \/ countdown_timer_with_updates
    \/ \E m \in 1..MaxViews, u \in Users : cancel_button(m, u)
    \/ LobbyTick

SpecViews == Init /\ [][NextViews]_vars

\* A game started from the lobby with each option of TimeSelect, the
\* answers submitted to it, and the time until its deadline.
NextRound ==
    \/ \E u \in Starters : handle_countdown_keeping(1, u)
    \/ \E seconds \in TimeOptions : TimeSelect_callback(1, seconds)
    \/ \E u \in Starters : start_button(1, u)
    \/ countdown_timer_with_updates
    \/ \E u \in Users : submit_answer(u, E_50x2)
    \/ Tick

SpecRound == Init /\ [][NextRound]_vars

\* Calls of add_to_context for one channel whose reads and writes of the
\* store interleave.
NextContext ==
    \/ \E c \in 1..NumCalls, u \in Users : add_to_context_read(c, u)
    \/ \E c \in 1..NumCalls : add_to_context_write(c)

SpecContext == Init /\ [][NextContext]_vars

\* parse_and_validate on each expression of ParserExpressions against each
\* list of ParserNumbers.
InitParser ==
    /\ now = 0 /\ lobby = None /\ game = None /\ subs = NoSubs /\ view = <<>>
    /\ calls = [c \in 1..NumCalls |-> Idle] /\ board = <<>> /\ timer = "none"
    /\ context = None /\ sent = 0
    /\ ret \in {Ok("parser_input", <<e, n>>, None) : e \in ParserExpressions, n \in ParserNumbers}

NextParser == parse_and_validate_call

SpecParser == InitParser /\ [][NextParser]_vars

\* solve on each target of SolverTargets and each list of SolverNumbers.
InitSolver ==
    /\ now = 0 /\ lobby = None /\ game = None /\ subs = NoSubs /\ view = <<>>
    /\ calls = [c \in 1..NumCalls |-> Idle] /\ board = <<>> /\ timer = "none"
    /\ context = None /\ sent = 0
    /\ ret \in {Ok("solver_input", <<t, n>>, None) : t \in SolverTargets, n \in SolverNumbers}

NextSolver == solve_call

SpecSolver == InitSolver /\ [][NextSolver]_vars

\* solve on each target of ClassicTargets and each list of ClassicLists.
InitClassic ==
    /\ now = 0 /\ lobby = None /\ game = None /\ subs = NoSubs /\ view = <<>>
    /\ calls = [c \in 1..NumCalls |-> Idle] /\ board = <<>> /\ timer = "none"
    /\ context = None /\ sent = 0
    /\ ret \in {Ok("solver_input", <<t, n>>, None) : t \in ClassicTargets, n \in ClassicLists}

NextClassic == solve_call

SpecClassic == InitClassic /\ [][NextClassic]_vars

\* determine_winners on each list of RankedInputs.
InitRanking ==
    /\ now = 0 /\ lobby = None /\ game = None /\ subs = NoSubs /\ view = <<>>
    /\ calls = [c \in 1..NumCalls |-> Idle] /\ board = <<>> /\ timer = "none"
    /\ context = None /\ sent = 0
    /\ ret \in {Ok("input", <<l>>, None) : l \in RankedInputs}

NextRanking == determine_winners_call

SpecRanking == InitRanking /\ [][NextRanking]_vars

\* ------------------------------------------------------------- claims
\* What the claims say of the store, read off the variables themselves.
HasLobby == lobby # None
HasActiveGame == game # None /\ game[1].val.status = "active"
StoredGame == game[1].val
RoundOpen == HasActiveGame /\ now < StoredGame.end_time
ScoreOf(scores, u) == IF u \in DOMAIN scores THEN scores[u] ELSE 0

\* C1: a (server, channel) pair never holds a lobby record and an active game
\* record at the same time (the lobby key holds at most one lobby by
\* construction of the store).
C1_LobbyExcludesGame == ~(HasLobby /\ HasActiveGame)

\* C2: create_game on a channel with an active game fails and leaves the game
\* record and the submissions unchanged; otherwise it stores an active game at
\* round 1 with empty game_scores, the requested total_rounds and
\* round_duration, and end_time = start_time + round_duration.
C2_CreateGame ==
    [][ret'.op = "create_game" =>
        IF HasActiveGame
        THEN ~ret'.ok /\ game' = game /\ subs' = subs
        ELSE /\ ret'.ok
             /\ game' # None
             /\ ret'.val = Some(game'[1].val)
             /\ game'[1].val.status = "active"
             /\ game'[1].val.current_round = 1
             /\ game'[1].val.game_scores = <<>>
             /\ game'[1].val.total_rounds = ret'.arg[2]
             /\ game'[1].val.round_duration = ret'.arg[3]
             /\ game'[1].val.start_time = now
             /\ game'[1].val.end_time = game'[1].val.start_time + ret'.arg[3]]_vars

\* C3: after the host's start (update_lobby, create_game_from_lobby) either
\* the lobby is deleted and a game with the lobby's rounds and
\* seconds_per_round exists, or the call failed and the lobby record is still
\* present.
C3_StartIsAtomic ==
    (ret.op = "start_button" /\ ret.err # "Only the host can start the game!") =>
        \/ /\ ret.ok
           /\ ~HasLobby
           /\ HasActiveGame
           /\ StoredGame.total_rounds = ret.arg[2].rounds
           /\ StoredGame.round_duration = ret.arg[2].seconds_per_round
        \/ ~ret.ok /\ HasLobby

\* C4: within one round a user's recorded submission stays as it is while the
\* round is open, and a later submit_answer by that user is rejected and
\* changes nothing.
RecordedThisRound(u) ==
    /\ RoundOpen
    /\ u \in DOMAIN subs.h
    /\ subs.h[u].submitted_at >= StoredGame.start_time

C4_OneSubmissionPerRound ==
    [][\A u \in Users :
        RecordedThisRound(u) =>
            /\ (ret'.op = "submit_answer" /\ ret'.arg[1] = u) => (~ret'.ok /\ subs' = subs)
            /\ (game' = game /\ now' < StoredGame.end_time /\ ret'.op # "end_round") =>
                   (u \in DOMAIN subs'.h /\ subs'.h[u] = subs.h[u])]_vars

\* C5: of two submit_answer calls by one user in one round whose store
\* accesses interleave, at most one records a submission.
C5_OneRecordedUnderRace ==
    \A c1, c2 \in 1..NumCalls :
        (c1 # c2 /\ calls[c1].user_id = calls[c2].user_id)
            => ~(calls[c1].result = "recorded" /\ calls[c2].result = "recorded")

\* C6: submit_answer fails, records nothing and changes no game state when
\* there is no active game or the time is at or past the stored end_time.
C6_SubmitRejected ==
    [][(ret'.op = "submit_answer" /\ (~HasActiveGame \/ now >= StoredGame.end_time)) =>
        (~ret'.ok /\ subs' = subs /\ game' = game /\ lobby' = lobby)]_vars

\* C6 witness: a submit_answer refused at the very instant end_time, with
\* another user's submission stored.
C6_Witness ==
    /\ ret.op = "submit_answer" /\ ~ret.ok
    /\ HasActiveGame /\ now = StoredGame.end_time
    /\ subs.h # <<>>

\* C7: a submission of an accepted expression records the distance
\* |target - result| of the evaluator's result, fractional results included; a
\* rejected expression is recorded invalid with no result, the evaluator's
\* error and the distance 999999.
C7_DistanceIsExact ==
    (ret.op = "submit_answer" /\ ret.ok) =>
        LET s == ret.val[1]
            r == parse_and_validate(s.expression, StoredGame.numbers)
        IN  IF r.valid
            THEN /\ s.valid
                 /\ <<s.distance, 1>> =
                        Frac(Abs((StoredGame.target * r.result[1][2]) - r.result[1][1]),
                             r.result[1][2])
            ELSE /\ ~s.valid
                 /\ s.result = None
                 /\ s.error = r.error
                 /\ s.distance = 999999

C9_AdvanceRound ==
    [][(ret'.op = "advance_round" /\ HasActiveGame
            /\ StoredGame.current_round < StoredGame.total_rounds) =>
        /\ ret'.ok
        /\ game' # None
        /\ ret'.val = Some(game'[1].val)
        /\ game'[1].val.status = "active"
        /\ game'[1].val.current_round = StoredGame.current_round + 1
        /\ DOMAIN game'[1].val.game_scores = DOMAIN StoredGame.game_scores \cup DOMAIN ret'.arg[1]
        /\ \A u \in DOMAIN ret'.arg[1] :
               game'[1].val.game_scores[u] = ScoreOf(StoredGame.game_scores, u) + ret'.arg[1][u]
        /\ \A u \in DOMAIN StoredGame.game_scores \ DOMAIN ret'.arg[1] :
               game'[1].val.game_scores[u] = StoredGame.game_scores[u]
        /\ game'[1].val.end_time = now + StoredGame.round_duration
        /\ game'[1].val.total_rounds = StoredGame.total_rounds
        /\ game'[1].val.round_duration = StoredGame.round_duration]_vars

\* C9 witness: a second advance of a game, after which one user holds the
\* points of two rounds and the other user's points are as before.
C9_Witness ==
    /\ ret.op = "advance_round" /\ ret.ok /\ ret.val # None
    /\ StoredGame.current_round = 3
    /\ \E u, v \in Users :
        /\ u # v
        /\ DOMAIN ret.arg[1] = {u}
        /\ ret.arg[2][1].game_scores = [w \in {u, v} |-> 5]
        /\ StoredGame.game_scores = [w \in {u, v} |-> IF w = u THEN 10 ELSE 5]

\* C10: advance_round while current_round equals total_rounds returns None
\* and removes the game, and the game key stays empty until a create_game.
C10_FinalAdvance ==
    [][/\ (ret'.op = "advance_round" /\ HasActiveGame
              /\ StoredGame.current_round = StoredGame.total_rounds) =>
                  (ret'.ok /\ ret'.val = None /\ game' = None)
       /\ (game = None /\ game' # None) => ret'.op = "create_game"]_vars

\* C10 witness: the game is gone after an advance_round at round 3 of 3.
C10_Witness ==
    /\ ret.op = "advance_round" /\ ret.ok /\ ret.val = None
    /\ ret.arg[2][1].current_round = 3 /\ ret.arg[2][1].total_rounds = 3
    /\ game = None

\* C11: every stored game has 1 <= current_round <= total_rounds.
C11_RoundWithinTotal ==
    HasActiveGame =>
        (1 <= StoredGame.current_round /\ StoredGame.current_round <= StoredGame.total_rounds)

\* C12: in every round of every game the numbers are 5: the first 2 distinct
\* members of {25, 50, 75, 100}, the last 3 each in 1..10; numbers is
\* large_numbers followed by small_numbers, and the target is in 100..999.
C12_NumbersAndTarget ==
    HasActiveGame =>
        LET g == StoredGame
        IN  /\ Len(g.numbers) = 5
            /\ g.numbers[1] \in {25, 50, 75, 100} /\ g.numbers[2] \in {25, 50, 75, 100}
            /\ g.numbers[1] # g.numbers[2]
            /\ \A i \in 3..5 : g.numbers[i] \in 1..10
            /\ g.numbers = g.large_numbers \o g.small_numbers
            /\ Len(g.large_numbers) = 2 /\ Len(g.small_numbers) = 3
            /\ g.target \in 100..999

\* C12 witness: a second round whose small numbers repeat, with the largest
\* target, after a first round with other numbers.
C12_Witness ==
    /\ ret.op = "advance_round" /\ ret.ok /\ ret.val # None
    /\ StoredGame.current_round = 2
    /\ StoredGame.numbers = <<100, 25, 10, 10, 1>>
    /\ StoredGame.target = 999
    /\ ret.arg[2][1].numbers # StoredGame.numbers

\* C13: determine_winners returns exactly the valid submissions of its input,
\* each as often as the input holds it and no invalid one, ordered so that of
\* two adjacent entries the earlier has the smaller distance, or the same
\* distance and a timestamp not later; with no valid submission it returns
\* the empty list.
C13_Winners ==
    ret.op = "determine_winners" =>
        LET in == ret.arg[1]
            out == ret.val[1]
        IN  /\ \A x \in Range(in) \cup Range(out) :
                   Count(out, x) = (IF x.valid THEN Count(in, x) ELSE 0)
            /\ \A i \in 1..(Len(out) - 1) :
                   \/ out[i].distance < out[i + 1].distance
                   \/ /\ out[i].distance = out[i + 1].distance
                      /\ out[i].submitted_at <= out[i + 1].submitted_at
            /\ (\A i \in 1..Len(in) : ~in[i].valid) => out = <<>>

\* C13 witness: distances 5, 5, 0 at times 10, 5, 20 are ranked 0, then 5 at
\* time 5, then 5 at time 10.
C13_Witness ==
    /\ ret.op = "determine_winners"
    /\ Len(ret.arg[1]) = 3
    /\ [i \in 1..3 |-> <<ret.arg[1][i].valid, ret.arg[1][i].distance, ret.arg[1][i].submitted_at>>]
           = <<<<TRUE, 5, 10>>, <<TRUE, 5, 5>>, <<TRUE, 0, 20>>>>
    /\ [i \in 1..3 |-> <<ret.val[1][i].distance, ret.val[1][i].submitted_at>>]
           = <<<<0, 20>>, <<5, 5>>, <<5, 10>>>>

\* What the point table gives a submission, as the claims state the table.
Awarded(submissions, u) ==
    LET S == {i \in DOMAIN submissions : submissions[i].user_id = u}
    IN  IF S = {} THEN 0
        ELSE LET sub == submissions[CHOOSE i \in S : TRUE]
             IN  IF ~sub.valid THEN 0
                 ELSE IF sub.distance = 0 THEN 10
                 ELSE IF sub.distance \in 1..10 THEN 5
                 ELSE IF sub.distance \in 11..25 THEN 2
                 ELSE 0

\* C14: update_scores on the submissions of a round awards 10 points at
\* distance 0, 5 at 1..10, 2 at 11..25 and 0 beyond or when invalid; the
\* leaderboard grows by exactly the award for each user, the returned mapping
\* holds exactly the users with a positive award and their points, and a user
\* with no award gets no leaderboard entry and no changed score.
C14_UpdateScores ==
    [][ret'.op = "update_scores" =>
           LET in == ret'.arg[1]
               out == ret'.val[1]
           IN  /\ DOMAIN out \subseteq Users
               /\ DOMAIN board' \subseteq Users
               /\ \A u \in Users :
                    /\ ScoreOf(board', u) = ScoreOf(board, u) + Awarded(in, u)
                    /\ u \in DOMAIN out <=> Awarded(in, u) > 0
                    /\ u \in DOMAIN out => out[u] = Awarded(in, u)
                    /\ Awarded(in, u) = 0 => (u \in DOMAIN board' <=> u \in DOMAIN board)]_vars

\* C14 witness: a second award of 5 to a user, at distance 10, beside a user
\* at distance 26 who gets nothing and has no leaderboard entry.
C14_Witness ==
    /\ ret.op = "update_scores"
    /\ Len(ret.arg[1]) = 2
    /\ ret.arg[1][1].valid /\ ret.arg[1][1].distance = 10
    /\ ret.arg[1][2].valid /\ ret.arg[1][2].distance = 26
    /\ DOMAIN ret.val[1] = {ret.arg[1][1].user_id}
    /\ ret.val[1][ret.arg[1][1].user_id] = 5
    /\ DOMAIN board = {ret.arg[1][1].user_id}
    /\ board[ret.arg[1][1].user_id] = 10

\* C15: in every step of creating, ending, cancelling and advancing games and
\* of update_scores, no leaderboard entry is removed, no score decreases, and
\* each user's score grows by exactly the points update_scores returns for the
\* user in that step (by nothing in a step of any other operation); so a score
\* is always the sum of the points awarded.
C15_LeaderboardIsTheSum ==
    [][/\ DOMAIN board \subseteq DOMAIN board'
       /\ \A u \in Users :
            /\ ScoreOf(board', u) >= ScoreOf(board, u)
            /\ ScoreOf(board', u) - ScoreOf(board, u)
                 = (IF ret'.op = "update_scores" THEN ScoreOf(ret'.val[1], u) ELSE 0)]_vars

\* C15 witness: a game is cancelled while a user holds 7 points from two
\* awards and another user holds 10.
C15_Witness ==
    /\ ret.op = "cancel_game"
    /\ ret.val = Some(TRUE)
    /\ \E u, w \in DOMAIN board : u # w /\ board[u] = 7 /\ board[w] = 10

\* C16: cancel_game and delete_lobby each tell the caller whether a record
\* existed: with a record the call succeeds and does not report absence,
\* without one it returns False or an error; and after either call the game
\* and its submissions, or the lobby, are absent.
C16_CleanupReports ==
    [][/\ ret'.op = "cancel_game" =>
            /\ HasActiveGame => ret'.ok /\ ret'.val # Some(FALSE)
            /\ ~HasActiveGame => ~ret'.ok \/ ret'.val = Some(FALSE)
            /\ game' = None /\ subs'.h = <<>>
       /\ ret'.op = "delete_lobby" =>
            /\ HasLobby => ret'.ok /\ ret'.val # Some(FALSE)
            /\ ~HasLobby => ~ret'.ok \/ ret'.val = Some(FALSE)
            /\ lobby' = None]_vars

StoredLobby == lobby[1].val

\* C17: while a lobby is stored, a start or cancel action of a user who is not
\* that lobby's host leaves the lobby record and the game record as they are;
\* and the ready button of any user toggles that user in the lobby's ready
\* list.
C17_HostOnly ==
    [][HasLobby =>
          /\ (ret'.op \in {"start_button", "cancel_button"}
                 /\ ret'.arg[1] # StoredLobby.host_id) =>
                (lobby' = lobby /\ game' = game)
          /\ ret'.op = "toggle_ready" =>
                /\ ret'.ok
                /\ lobby' # None
                /\ (ret'.arg[1] \in Range(lobby'[1].val.ready_players))
                       <=> (ret'.arg[1] \notin Range(StoredLobby.ready_players))]_vars

\* C18: a stored lobby is less than LOBBY_TTL seconds old: no later than
\* LOBBY_TTL seconds after create_lobby made it the lobby is gone, whatever
\* ready toggles and settings updates happened.
C18_LobbyLifetime == HasLobby => now < StoredLobby.created_at + LOBBY_TTL

\* C19: when the timer task runs and finds the game record gone, its re-check
\* of the record completes without an error, and the run writes no game,
\* submission or leaderboard record and leaves no timer task scheduled.
C19_TimerRechecks ==
    [][(ret'.op = "countdown_timer_with_updates" /\ ~HasActiveGame) =>
           /\ ret'.ok
           /\ game' = game /\ subs' = subs /\ board' = board
           /\ timer' # "scheduled"]_vars

\* C20: a game started from a lobby does not stay in a round whose deadline
\* has passed: by one clock step after the stored end_time the timer task has
\* ended the round, and the game has advanced to a round with a later
\* deadline or has been deleted.
C20_RoundEndsAfterDeadline ==
    HasActiveGame => now < StoredGame.end_time + TickStep

\* The integer literals of a text, read off its digit runs: a run starts at
\* a digit that no digit precedes and ends before the next non-digit.
RunStarts(e) == {i \in DOMAIN e : IsDigit(e[i]) /\ (i = 1 \/ ~IsDigit(e[i - 1]))}
RunLast(e, i) == CHOOSE j \in i..Len(e) :
                     /\ \A k \in i..j : IsDigit(e[k])
                     /\ (j = Len(e) \/ ~IsDigit(e[j + 1]))
RECURSIVE DigitsValue(_, _, _)
DigitsValue(e, i, j) == IF j < i THEN 0 ELSE (10 * DigitsValue(e, i, j - 1)) + DigitVal(e[j])
Literal(e, i) == DigitsValue(e, i, RunLast(e, i))
Uses(e, n) == Cardinality({i \in RunStarts(e) : Literal(e, i) = n})
SubMultiset(e, available) ==
    \A i \in RunStarts(e) : Uses(e, Literal(e, i)) <= Count(available, Literal(e, i))

\* C21: parse_and_validate returns valid only if the literals of the sanitized
\* expression form a sub-multiset of the available numbers; when a literal
\* is absent or over-used the result is not valid, has no value, and its
\* error names a literal that is absent (as not available) or over-used.
C21_NumbersChecked ==
    ret.op = "parse_and_validate" =>
        LET e == sanitize(ret.arg[1])
            available == ret.arg[2]
            r == ret.val[1]
        IN  /\ r.valid => SubMultiset(e, available)
            /\ ~SubMultiset(e, available) =>
                 /\ ~r.valid
                 /\ r.result = None
                 /\ r.error # None
                 /\ r.error[1].num # None
                 /\ LET n == r.error[1].num[1]
                    IN  /\ Uses(e, n) > Count(available, n)
                        /\ r.error[1].msg = (IF Count(available, n) = 0
                                             THEN "is not available"
                                             ELSE "used more times than available")

\* C21 witness: 2+2 against numbers with a single 2 is rejected for the
\* number 2 used more times than available.
C21_Witness ==
    /\ ret.op = "parse_and_validate"
    /\ ret.arg = <<<<"2", "+", "2">>, <<25, 50, 2, 5, 5>>>>
    /\ ~ret.val[1].valid
    /\ ret.val[1].error = EvalError("used more times than available", Some(2))

\* The exact value of a syntax tree over + - * / and the unary signs, or None
\* where a division by zero leaves it undefined.
RECURSIVE ExactValue(_)
ExactValue(node) ==
    IF node.k = "Constant" THEN Some(<<node.v, 1>>)
    ELSE IF node.k = "UnaryOp"
    THEN LET x == ExactValue(node.l[1])
         IN  IF x = None THEN None
             ELSE IF node.op = "USub" THEN Some(<<-x[1][1], x[1][2]>>) ELSE x
    ELSE LET x == ExactValue(node.l[1])
             y == ExactValue(node.r[1])
         IN  IF x = None \/ y = None THEN None
             ELSE IF node.op = "Div" /\ y[1][1] = 0 THEN None
             ELSE Some(Apply(node.op, x[1], y[1]))

RECURSIVE Arithmetic(_)
Arithmetic(node) ==
    \/ node.k = "Constant"
    \/ node.k = "UnaryOp" /\ Arithmetic(node.l[1])
    \/ /\ node.k = "BinOp"
       /\ node.op \in {"Add", "Sub", "Mult", "Div"}
       /\ Arithmetic(node.l[1])
       /\ Arithmetic(node.r[1])

RECURSIVE DividesByZero(_)
DividesByZero(node) ==
    \/ node.k = "UnaryOp" /\ DividesByZero(node.l[1])
    \/ /\ node.k = "BinOp"
       /\ \/ DividesByZero(node.l[1])
          \/ DividesByZero(node.r[1])
          \/ node.op = "Div" /\ ExactValue(node.r[1]) = Some(<<0, 1>>)

\* C22: for an expression in + - * / over the available numbers in which a
\* division's right operand is zero, parse_and_validate returns a result that
\* is not valid, has no value and carries the error "Division by zero".
C22_DivisionByZero ==
    ret.op = "parse_and_validate" =>
        LET e == sanitize(ret.arg[1])
            tree == ast_parse(e)
            r == ret.val[1]
        IN  (/\ SubMultiset(e, ret.arg[2])
             /\ tree.ok
             /\ Arithmetic(tree.ast)
             /\ DividesByZero(tree.ast)) =>
                /\ ~r.valid
                /\ r.result = None
                /\ r.error = EvalError("Division by zero", None)

\* C22 witness: 2/(2-2) against numbers with three 2s.
C22_Witness ==
    /\ ret.op = "parse_and_validate"
    /\ ret.arg = <<<<"2", "/", "(", "2", "-", "2", ")">>, <<25, 50, 2, 2, 2>>>>
    /\ ret.val[1].error = EvalError("Division by zero", None)

\* The values that the numbers at the positions in S combine to, every one
\* used exactly once, with + - * / and every intermediate result a positive
\* integer.
RECURSIVE Combinations(_, _)
Combinations(numbers, S) ==
    IF Cardinality(S) = 1 THEN {numbers[i] : i \in S}
    ELSE UNION {LET L == Combinations(numbers, A)
                    R == Combinations(numbers, S \ A)
                IN  UNION {{a + b, a * b} \cup (IF a > b THEN {a - b} ELSE {})
                               \cup (IF a % b = 0 THEN {a \div b} ELSE {}) :
                           a \in L, b \in R}
                : A \in (SUBSET S) \ {{}, S}}

\* The values some of the numbers combine to, each used at most once.
Reachable(numbers) ==
    UNION {Combinations(numbers, S) : S \in (SUBSET DOMAIN numbers) \ {{}}}

\* The expression is accepted by the evaluator against the numbers and has
\* the value v.
EvaluatesTo(expression, numbers, v) ==
    /\ expression # None
    /\ LET r == parse_and_validate(expression[1], numbers)
       IN  r.valid /\ r.result = Some(<<v, 1>>)

\* C23: when some combination of the numbers equals the target, solve returns
\* the target with an expression that the evaluator accepts against the
\* numbers (each used at most once) and evaluates to the target.
C23_ExactFound ==
    (ret.op = "solve" /\ ret.arg[1] \in Reachable(ret.arg[2])) =>
        /\ ret.val[1].result = ret.arg[1]
        /\ EvaluatesTo(ret.val[1].expression, ret.arg[2], ret.arg[1])

\* C23 witness: 12 is reached from 2, 3, 2 only by combining all three, and
\* solve returns it.
C23_Witness ==
    /\ ret.op = "solve"
    /\ ret.arg = <<12, <<2, 3, 2>>>>
    /\ ret.val[1].result = 12
    /\ ret.val[1].expression # None

\* C24: when no combination equals the target, solve returns a value v and
\* an expression that evaluates to v, and no combination is strictly closer
\* to the target than v.
C24_ClosestFound ==
    (ret.op = "solve" /\ ret.arg[1] \notin Reachable(ret.arg[2])) =>
        /\ EvaluatesTo(ret.val[1].expression, ret.arg[2], ret.val[1].result)
        /\ \A v \in Reachable(ret.arg[2]) :
               Abs(ret.arg[1] - v) >= Abs(ret.arg[1] - ret.val[1].result)

\* C25: for every target and every non-empty list of numbers, solve returns an
\* expression, never none, together with the value it evaluates to.
C25_NeverEmpty ==
    ret.op = "solve" =>
        /\ ret.val[1].expression # None
        /\ EvaluatesTo(ret.val[1].expression, ret.arg[2], ret.val[1].result)

\* C26: solve(952, [25, 50, 75, 3, 6]) returns 952 with an expression over
\* those numbers that evaluates to 952.
C26_Classic ==
    (ret.op = "solve" /\ ret.arg = <<952, ClassicNumbers>>) =>
        /\ ret.val[1].result = 952
        /\ EvaluatesTo(ret.val[1].expression, ClassicNumbers, 952)

\* C26 as the solver behaves: no combination of 25, 50, 75, 3, 6 equals 952;
\* solve(952, [25, 50, 75, 3, 6]) returns 953, one away, with the expression
\* (3 + (50 * (25 - 6))), which evaluates to 953.
C26_ClassicOneAway ==
    (ret.op = "solve" /\ ret.arg = <<952, ClassicNumbers>>) =>
        /\ 952 \notin Reachable(ClassicNumbers)
        /\ ret.val[1].result = 953
        /\ ret.val[1].expression =
               Some(<<"(", "3", " ", "+", " ", "(", "5", "0", " ", "*", " ",
                      "(", "2", "5", " ", "-", " ", "6", ")", ")", ")">>)
        /\ EvaluatesTo(ret.val[1].expression, ClassicNumbers, 953)

\* C26 witness: solve has returned for target 952 and the five numbers.
C26_Witness ==
    /\ ret.op = "solve"
    /\ ret.arg = <<952, ClassicNumbers>>
    /\ ret.val[1].result = 953

\* C27: a submission recorded in a round stays stored until the round is
\* closed: while the game's record is unchanged, a step after which a stored
\* submission is no longer stored is an end_round that returns it.
C27_SubmissionsKept ==
    [][\A u \in Users :
          (/\ HasActiveGame
           /\ game' = game
           /\ u \in DOMAIN subs.h
           /\ u \notin DOMAIN subs'.h)
          => /\ ret'.op = "end_round"
             /\ ret'.ok
             /\ u \in DOMAIN ret'.val[1].submissions]_vars

\* C28: submit_answer rejects a user as having already submitted only when
\* the user has a submission recorded in the current round of the current
\* game; a submission left from an earlier round or game does not block.
C28_OnlyThisRoundBlocks ==
    (ret.op = "submit_answer" /\ ret.err = "You already submitted an answer!") =>
        RecordedThisRound(ret.arg[1])

\* C29: a start on a settings view whose lobby is no longer the stored one
\* (the record has expired or been cancelled, or another host's lobby is
\* stored in its place) creates no game and leaves the lobby key as it is.
C29_StaleStart ==
    [][(/\ ret'.op = "start_button"
        /\ ret'.err # "Only the host can start the game!"
        /\ \/ ~HasLobby
           \/ StoredLobby.host_id # ret'.arg[2].host_id)
       => /\ ~ret'.ok
          /\ game' = game
          /\ lobby' = lobby]_vars

\* C30: every add_to_context leaves in the store the entries that were stored
\* before it, in their order, followed by its own entry, cut to the last 30;
\* so no entry of a call is lost, whether or not calls overlap.
C30_ContextAppends ==
    [][ret'.op = "add_to_context" =>
          /\ context' # None
          /\ context'[1].val = LastOf(Append(get_context, ret'.arg[2]), MAX_CONTEXT_MESSAGES)
          /\ Len(context'[1].val) <= MAX_CONTEXT_MESSAGES]_vars

====
